---- MODULE Spec2Model ----
(***************************************************************************)
(* ZettlrToolbar (source/renderer/zettlr-toolbar.js): the toolbar view of  *)
(* the renderer.  The state is the view object's fields and the part of    *)
(* its DOM subtree its methods read and write; one action per event        *)
(* handler registered in _act() and per public method.                     *)
(*                                                                         *)
(* JavaScript strings that the code takes apart (the searchbar value, the  *)
(* file names) are sequences of one-character strings; strings the code    *)
(* only passes along (commands, attribute values) are TLA+ strings.        *)
(***************************************************************************)
EXTENDS Integers, Sequences, FiniteSets, TLC

VARIABLES
  focused,       \* the searchbar <input> is the focused element
  value,         \* this._searchbar.val()
  sel,           \* <<selectionStart, selectionEnd>> of the searchbar
  autocomplete,  \* this._autocomplete
  oldval,        \* this._oldval
  hidden,        \* this._searchProgress has class 'hidden'
  arc,           \* attribute d of the .indicator-value path
  fileInfo,      \* text of this._fileInfo
  mute,          \* this._div has class 'mute'
  calls,         \* the calls into this._renderer made by the last operation
  op,            \* the last operation, with its arguments
  progressed,    \* history: searchProgress was called since the last endSearch
  lastEdit       \* history: how the user last edited the searchbar's text,
                 \* "none" once the toolbar has overwritten it

vars == <<focused, value, sel, autocomplete, oldval, hidden, arc, fileInfo,
          mute, calls, op, progressed, lastEdit>>

searchVars == <<focused, value, sel, autocomplete, oldval>>
otherVars == <<hidden, arc, progressed, fileInfo, mute>>
indicatorVars == <<hidden, arc, progressed>>

-----------------------------------------------------------------------------
(* Bounds and input domains *)

MaxLen == 2      \* longest searchbar text the user types
MaxItems == 2    \* largest itemCnt of searchProgress
MaxWords == 2    \* largest word count of updateWordCount

\* the searchbar alone (SearchSpec)
Chars == {"a", "A", "b"}
FileLists == {<<>>,
              << <<"a", "b", "a">>, <<"A", "a">> >>,
              << <<"A", "a">>, <<"a", "b", "a">> >>,
              << <<"b">>, <<"a", "b", "a">> >>}
Terms == {<<>>, <<"a">>, <<"b", "A">>}

\* the whole toolbar (Spec)
ViewChars == {"a"}
ViewFileLists == {<< <<"A", "b">> >>}
ViewTerms == {<<"b">>}

ESC == 27
RETURN == 13
BACKSPACE == 8
DELETE == 46
SHIFT == 16      \* a key that types nothing
KEY_A == 65      \* a key that types a character
Keys == {ESC, RETURN, BACKSPACE, DELETE, SHIFT, KEY_A}

-----------------------------------------------------------------------------
(* JavaScript string functions used by the keyup handler *)

Min(a, b) == IF a < b THEN a ELSE b

\* String.prototype.substr(start, length), 0 <= start
substr(s, start, length) ==
  SubSeq(s, start + 1, Min(Len(s), start + length))

\* String.prototype.substr(start), 0 <= start
substrFrom(s, start) == SubSeq(s, start + 1, Len(s))

toLowerChar(c) == IF c = "A" THEN "a" ELSE IF c = "B" THEN "b" ELSE c

toLowerCase(s) == [i \in 1..Len(s) |-> toLowerChar(s[i])]

\* variant: the comparison without toLowerCase()
IsPrefixMatch_CaseSensitive(name, v) == substr(name, 0, Len(v)) = v

\* the test of line 69
IsPrefixMatch(name, v) ==
  toLowerCase(substr(name, 0, Len(v))) = toLowerCase(v)

\* the for ... of loop with its break: index of the first matching name, 0 if none
FirstMatch(list, v) ==
  IF \E i \in 1..Len(list) : IsPrefixMatch(list[i], v)
  THEN CHOOSE i \in 1..Len(list) :
         /\ IsPrefixMatch(list[i], v)
         /\ \A j \in 1..(i - 1) : ~IsPrefixMatch(list[j], v)
  ELSE 0

\* the value written by line 70
Completion(name, v) == v \o substrFrom(name, Len(v))

-----------------------------------------------------------------------------
(* Calls into the renderer *)

ExitSearchCall == [fn |-> "exitSearch"]
BeginSearchCall(term) == [fn |-> "beginSearch", term |-> term]
GetFilesCall(ret) == [fn |-> "getFilesInDirectory", ret |-> ret]
ShowFileInfoCall == [fn |-> "getBody.showFileInfo"]
HandleEventCall(command, content) ==
  [fn |-> "handleEvent", command |-> command, content |-> content]

-----------------------------------------------------------------------------
(* _build(): the children appended to #toolbar, one per template element. *)
(* A JSON key that is absent is <<>>, a key with string s is <<s>>; the    *)
(* same for an attribute of a DOM element.                                 *)

Template == <<
  [role |-> "button", class |-> "file-new", command |-> <<"file-new">>, content |-> <<"md">>],
  [role |-> "button", class |-> "no-command", command |-> <<>>, content |-> <<"0">>],
  [role |-> "button", class |-> "empty", command |-> <<"">>, content |-> <<"">>],
  [role |-> "button", class |-> "no-content", command |-> <<"share">>, content |-> <<>>],
  [role |-> "searchbar", class |-> "", command |-> <<>>, content |-> <<>>],
  [role |-> "pomodoro", class |-> "", command |-> <<>>, content |-> <<>>] >>

BuildChild(elem) ==
  IF elem.role = "button"
  THEN [classes |-> {elem.role, elem.class},
        command |-> elem.command, content |-> elem.content]
  ELSE IF elem.role = "pomodoro"
  THEN [classes |-> {elem.role, "button"},
        command |-> <<"pomodoro">>, content |-> <<>>]
  ELSE [classes |-> {elem.role}, command |-> <<>>, content |-> <<>>]

Build(tpl) == [i \in 1..Len(tpl) |-> BuildChild(tpl[i])]

Children == Build(Template)

\* this._div.find('.button')
ButtonIndexes == {i \in 1..Len(Children) : "button" \in Children[i].classes}

\* JavaScript: a string attribute is falsy when missing or empty
Falsy(attr) == attr = <<>> \/ attr = <<"">>

StringContent(s) == [type |-> "string", str |-> s]
EmptyObject == [type |-> "object", str |-> ""]
UndefinedContent == [type |-> "undefined", str |-> ""]

\* variant: the default for a missing attribute only, not for an empty one
CommandOf_MissingOnly(elem) ==
  IF elem.command = <<>> THEN "unknown-command" ELSE elem.command[1]

\* elem.attr('data-command') || 'unknown-command'
CommandOf(elem) ==
  IF Falsy(elem.command) THEN "unknown-command" ELSE elem.command[1]

\* elem.attr('data-content') || {}
ContentOf(elem) ==
  IF Falsy(elem.content) THEN EmptyObject ELSE StringContent(elem.content[1])

-----------------------------------------------------------------------------
(* The progress arc and the word-count label *)

RECURSIVE GCD(_, _)
GCD(a, b) == IF b = 0 THEN a ELSE GCD(b, a % b)

NoArc == <<0, 0, 0>>   \* d="" of the constructor's markup

\* lines 210-214: the path depends on progress = item / itemCnt only, through
\* large, cos(2*PI*progress) and sin(2*PI*progress); two calls draw the same
\* path exactly when their fractions are equal, so the end point is kept as
\* the fraction in lowest terms.
ArcPath(item, itemCnt) ==
  LET g == GCD(item, itemCnt)
  IN  <<IF 2 * item > itemCnt THEN 1 ELSE 0, item \div g, itemCnt \div g>>

NoText == <<>>
\* trans('gui.words', localiseNumber(words))
WordsLabel(words) == <<"gui.words", words>>

-----------------------------------------------------------------------------
Init ==
  /\ focused = FALSE
  /\ value = <<>>
  /\ sel = <<0, 0>>
  /\ autocomplete = <<>>
  /\ oldval = <<>>
  /\ hidden = TRUE
  /\ arc = NoArc
  /\ fileInfo = NoText
  /\ mute = FALSE
  /\ calls = <<>>
  /\ op = <<"constructor">>
  /\ progressed = FALSE
  /\ lastEdit = "none"

-----------------------------------------------------------------------------
(* The searchbar's event handlers (_act) *)

\* this._searchbar.on('focus', ...): the handler's effect on this._autocomplete
FocusHandlerList(fire, fs, list) == IF fire THEN fs ELSE list
FocusHandlerCalls(fire, fs) == IF fire THEN <<GetFilesCall(fs)>> ELSE <<>>

\* variant: a blur handler that resets nothing
BlurHandlerReset_Keep(fire, field) == field

\* this._searchbar.on('blur', ...): the handler's effect on a field
BlurHandlerReset(fire, field) == IF fire THEN <<>> ELSE field

\* The user gives the searchbar the focus (click, tab); the focus handler
\* runs: select(), and getFilesInDirectory() returns fs.
Focus(fs) ==
  /\ ~focused
  /\ focused' = TRUE
  /\ sel' = <<0, Len(value)>>
  /\ autocomplete' = FocusHandlerList(TRUE, fs, autocomplete)
  /\ calls' = FocusHandlerCalls(TRUE, fs)
  /\ op' = <<"focus">>
  /\ UNCHANGED <<value, oldval, otherVars, lastEdit>>

\* The searchbar loses the focus; the blur handler runs.
Blur ==
  /\ focused
  /\ focused' = FALSE
  /\ autocomplete' = BlurHandlerReset(TRUE, autocomplete)
  /\ oldval' = BlurHandlerReset(TRUE, oldval)
  /\ calls' = <<>>
  /\ op' = <<"blur">>
  /\ UNCHANGED <<value, sel, otherVars, lastEdit>>

\* The <input>'s own editing, before the keyup: a typed character replaces
\* the selection.
TypeChar(c) ==
  LET new == SubSeq(value, 1, sel[1]) \o <<c>> \o substrFrom(value, sel[2])
  IN  /\ focused
      /\ Len(new) <= MaxLen
      /\ value' = new
      /\ sel' = <<sel[1] + 1, sel[1] + 1>>
      /\ calls' = <<>>
      /\ op' = <<"input", c>>
      /\ lastEdit' = "typed"
      /\ UNCHANGED <<focused, autocomplete, oldval, otherVars>>

\* Backspace or Delete in the <input>: removes the selection, or else the
\* character before (Backspace) or after (Delete) the caret.
DeleteText(key) ==
  LET from == IF sel[1] < sel[2] THEN sel[1]
              ELSE IF key = BACKSPACE THEN sel[1] - 1 ELSE sel[1]
      to == IF sel[1] < sel[2] THEN sel[2]
            ELSE IF key = BACKSPACE THEN sel[1] ELSE sel[1] + 1
  IN  /\ focused
      /\ from >= 0
      /\ to <= Len(value)
      /\ value' = SubSeq(value, 1, from) \o substrFrom(value, to)
      /\ sel' = <<from, from>>
      /\ calls' = <<>>
      /\ op' = <<"delete", key>>
      /\ lastEdit' = "deleted"
      /\ UNCHANGED <<focused, autocomplete, oldval, otherVars>>

\* variant: ESC without the blur()
KeyupEsc_NoBlur ==
  /\ value' = <<>>
  /\ sel' = <<0, 0>>
  /\ lastEdit' = "none"
  /\ calls' = <<ExitSearchCall>>
  /\ UNCHANGED <<focused, autocomplete, oldval>>

\* keyup, e.which === 27
KeyupEsc ==
  /\ focused' = FALSE                                  \* blur()
  /\ autocomplete' = BlurHandlerReset(TRUE, autocomplete)
  /\ oldval' = BlurHandlerReset(TRUE, oldval)
  /\ value' = <<>>                                     \* val('')
  /\ sel' = <<0, 0>>
  /\ lastEdit' = "none"
  /\ calls' = <<ExitSearchCall>>

\* variant: RETURN searching for this._oldval
KeyupReturn_OldVal ==
  /\ calls' = <<BeginSearchCall(oldval)>>
  /\ sel' = <<0, Len(value)>>
  /\ UNCHANGED <<focused, value, autocomplete, oldval, lastEdit>>

\* keyup, e.which === 13
KeyupReturn ==
  /\ calls' = <<BeginSearchCall(value)>>
  /\ sel' = <<0, Len(value)>>                          \* select()
  /\ UNCHANGED <<focused, value, autocomplete, oldval, lastEdit>>

\* keyup, e.which === 8 || e.which === 46
KeyupDelete ==
  /\ calls' = <<>>
  /\ UNCHANGED <<searchVars, lastEdit>>

\* line 65
ContentUnchanged == value = <<>> \/ value = oldval

\* keyup, any other key: lines 65-76.  fire: whether focus() of line 70 runs
\* the focus handler again on the searchbar, which has the focus already; it
\* depends on jQuery's trigger.  fs: what getFilesInDirectory() returns then.
KeyupOther(fire, fs) ==
  IF ContentUnchanged
  THEN /\ calls' = <<>>
       /\ UNCHANGED <<searchVars, lastEdit>>
  ELSE LET i == FirstMatch(autocomplete, value)
       IN  IF i = 0
           THEN /\ oldval' = value
                /\ calls' = <<>>
                /\ UNCHANGED <<focused, value, sel, autocomplete, lastEdit>>
           ELSE LET new == Completion(autocomplete[i], value)
                IN  /\ value' = new
                    /\ sel' = <<Len(value), Len(new)>>    \* setSelectionRange
                    /\ autocomplete' = FocusHandlerList(fire, fs, autocomplete)
                    /\ calls' = FocusHandlerCalls(fire, fs)
                    /\ oldval' = new
                    /\ UNCHANGED <<focused, lastEdit>>

\* this._searchbar.on('keyup', ...): the browser sends a key event to the
\* element that has the focus.
Keyup(which, fire, fs) ==
  /\ focused
  /\ op' = <<"keyup", which>>
  /\ IF which = ESC THEN KeyupEsc
     ELSE IF which = RETURN THEN KeyupReturn
     ELSE IF which = BACKSPACE \/ which = DELETE THEN KeyupDelete
     ELSE KeyupOther(fire, fs)
  /\ UNCHANGED otherVars

\* this._div.find('.end-search').on('click', ...).  fire: whether blur() runs
\* the blur handler; it does when the searchbar has the focus, and on an
\* element without the focus it depends on jQuery's trigger.
EndSearchClick(fire) ==
  /\ focused => fire
  /\ focused' = FALSE
  /\ autocomplete' = BlurHandlerReset(fire, autocomplete)
  /\ oldval' = BlurHandlerReset(fire, oldval)
  /\ value' = <<>>
  /\ sel' = <<0, 0>>
  /\ lastEdit' = "none"
  /\ calls' = <<ExitSearchCall>>
  /\ op' = <<"end-search">>
  /\ UNCHANGED otherVars

\* this._fileInfo.click(...)
FileInfoClick ==
  /\ calls' = <<ShowFileInfoCall>>
  /\ op' = <<"file-info">>
  /\ UNCHANGED <<searchVars, otherVars, lastEdit>>

\* this._div.find('.button').on('click', ...)
ButtonClick(i) ==
  /\ i \in ButtonIndexes
  /\ calls' = <<HandleEventCall(CommandOf(Children[i]), ContentOf(Children[i]))>>
  /\ op' = <<"click", i>>
  /\ UNCHANGED <<searchVars, otherVars, lastEdit>>

\* this._div.on('dblclick', ...)
DblClick ==
  /\ calls' = <<HandleEventCall("app-maximise", UndefinedContent)>>
  /\ op' = <<"dblclick">>
  /\ UNCHANGED <<searchVars, otherVars, lastEdit>>

-----------------------------------------------------------------------------
(* The public methods *)

\* the text hideWordCount() writes
HideWordCountText == NoText

\* variant: without the test for 0
updateWordCount_NoZeroTest(words) ==
  /\ fileInfo' = WordsLabel(words)
  /\ calls' = <<>>
  /\ op' = <<"updateWordCount", words>>
  /\ UNCHANGED <<searchVars, indicatorVars, mute, lastEdit>>

updateWordCount(words) ==
  /\ fileInfo' = IF words = 0 THEN HideWordCountText ELSE WordsLabel(words)
  /\ calls' = <<>>
  /\ op' = <<"updateWordCount", words>>
  /\ UNCHANGED <<searchVars, indicatorVars, mute, lastEdit>>

hideWordCount ==
  /\ fileInfo' = HideWordCountText
  /\ calls' = <<>>
  /\ op' = <<"hideWordCount">>
  /\ UNCHANGED <<searchVars, indicatorVars, mute, lastEdit>>

\* variant: addClass('mute') for toggleClass('mute')
toggleDistractionFree_AddClass ==
  /\ mute' = TRUE
  /\ calls' = <<>>
  /\ op' = <<"toggleDistractionFree">>
  /\ UNCHANGED <<searchVars, indicatorVars, fileInfo, lastEdit>>

toggleDistractionFree ==
  /\ mute' = ~mute
  /\ calls' = <<>>
  /\ op' = <<"toggleDistractionFree">>
  /\ UNCHANGED <<searchVars, indicatorVars, fileInfo, lastEdit>>

\* focus() gives the searchbar the focus and the focus handler runs; on a
\* searchbar that has the focus already, whether it runs again (fire) depends
\* on jQuery's trigger.  Then select().
focusSearch(fire, fs) ==
  /\ ~focused => fire
  /\ focused' = TRUE
  /\ autocomplete' = FocusHandlerList(fire, fs, autocomplete)
  /\ calls' = FocusHandlerCalls(fire, fs)
  /\ sel' = <<0, Len(value)>>
  /\ op' = <<"focusSearch">>
  /\ UNCHANGED <<value, oldval, otherVars, lastEdit>>

setSearch(term) ==
  /\ value' = term
  /\ sel' = <<Len(term), Len(term)>>
  /\ calls' = <<>>
  /\ lastEdit' = "none"
  /\ op' = <<"setSearch">>
  /\ UNCHANGED <<focused, autocomplete, oldval, otherVars>>

searchProgress(item, itemCnt) ==
  /\ IF hidden
     THEN /\ hidden' = FALSE
          /\ UNCHANGED arc
     ELSE /\ arc' = ArcPath(item, itemCnt)
          /\ UNCHANGED hidden
  /\ progressed' = TRUE
  /\ calls' = <<>>
  /\ op' = <<"searchProgress", item, itemCnt>>
  /\ UNCHANGED <<searchVars, fileInfo, mute, lastEdit>>

\* variant: toggleClass('hidden') for addClass('hidden')
endSearch_ToggleClass ==
  /\ hidden' = ~hidden
  /\ progressed' = FALSE
  /\ calls' = <<>>
  /\ op' = <<"endSearch">>
  /\ UNCHANGED <<searchVars, arc, fileInfo, mute, lastEdit>>

endSearch ==
  /\ hidden' = TRUE
  /\ progressed' = FALSE
  /\ calls' = <<>>
  /\ op' = <<"endSearch">>
  /\ UNCHANGED <<searchVars, arc, fileInfo, mute, lastEdit>>

-----------------------------------------------------------------------------
(* The searchbar: its events and the two methods that act on it *)

SearchNext ==
  \/ \E fs \in FileLists : Focus(fs)
  \/ Blur
  \/ \E c \in Chars : TypeChar(c)
  \/ \E key \in {BACKSPACE, DELETE} : DeleteText(key)
  \/ \E which \in Keys, fire \in BOOLEAN, fs \in FileLists : Keyup(which, fire, fs)
  \/ \E fire \in BOOLEAN : EndSearchClick(fire)
  \/ \E fire \in BOOLEAN, fs \in FileLists : focusSearch(fire, fs)
  \/ \E term \in Terms : setSearch(term)

SearchSpec == Init /\ [][SearchNext]_vars

(* The whole toolbar *)

Next ==
  \/ \E fs \in ViewFileLists : Focus(fs)
  \/ Blur
  \/ \E c \in ViewChars : TypeChar(c)
  \/ \E key \in {BACKSPACE, DELETE} : DeleteText(key)
  \/ \E which \in Keys, fire \in BOOLEAN, fs \in ViewFileLists : Keyup(which, fire, fs)
  \/ \E fire \in BOOLEAN : EndSearchClick(fire)
  \/ FileInfoClick
  \/ \E i \in ButtonIndexes : ButtonClick(i)
  \/ DblClick
  \/ \E words \in 0..MaxWords : updateWordCount(words)
  \/ hideWordCount
  \/ toggleDistractionFree
  \/ \E fire \in BOOLEAN, fs \in ViewFileLists : focusSearch(fire, fs)
  \/ \E term \in ViewTerms : setSearch(term)
  \/ \E itemCnt \in 1..MaxItems : \E item \in 0..itemCnt : searchProgress(item, itemCnt)
  \/ endSearch

Spec == Init /\ [][Next]_vars

-----------------------------------------------------------------------------
(* Vocabulary of the properties *)

IsKeyup(o) == o[1] = "keyup"
IsOtherKeyup(o) == o[1] = "keyup" /\ o[2] \notin {ESC, RETURN, BACKSPACE, DELETE}
IsDeleteKeyup(o) == o[1] = "keyup" /\ o[2] \in {BACKSPACE, DELETE}
\* the calls that send a command to the renderer
Commands == {"handleEvent", "beginSearch", "exitSearch"}
NoCommand(cs) == \A k \in 1..Len(cs) : cs[k].fn \notin Commands

\* two characters that are the same letter, whatever their case
SameLetter(c, d) == c = d \/ {c, d} = {"a", "A"} \/ {c, d} = {"b", "B"}

\* v is a prefix of name, case-insensitively
HasPrefix(name, v) ==
  /\ Len(name) >= Len(v)
  /\ \A k \in 1..Len(v) : SameLetter(name[k], v[k])

\* the names of list with prefix v, by position
Matches(list, v) == {i \in 1..Len(list) : HasPrefix(list[i], v)}

\* C1: a click on an element with class 'button' makes exactly one call,
\* handleEvent(command, content), with command the data-command attribute or
\* 'unknown-command' when it is missing or empty, and content the data-content
\* attribute or {} when it is missing or empty; it changes no toolbar state.
C1_ButtonClickDispatches ==
  [][op'[1] = "click" =>
       LET e == Children[op'[2]]
           command == IF e.command = <<>> \/ e.command[1] = ""
                      THEN "unknown-command" ELSE e.command[1]
           content == IF e.content = <<>> \/ e.content[1] = ""
                      THEN [type |-> "object", str |-> ""]
                      ELSE [type |-> "string", str |-> e.content[1]]
       IN  /\ "button" \in e.classes
           /\ Len(calls') = 1
           /\ calls'[1].fn = "handleEvent"
           /\ calls'[1].command = command
           /\ calls'[1].content = content
           /\ UNCHANGED <<searchVars, hidden, arc, fileInfo, mute>>]_vars

\* a click on a button whose data-command is the empty string, with the
\* searchbar focused, candidates loaded and the indicator visible
C1_Witness ==
  /\ op[1] = "click"
  /\ Children[op[2]].command = <<"">>
  /\ calls[1].command = "unknown-command"
  /\ focused /\ autocomplete # <<>> /\ ~hidden

\* C2: a keyup of a key other than ESC, RETURN, Backspace, Delete with a
\* non-empty value v that differs from the old value completes v with the
\* remainder of the first candidate that has v as a case-insensitive prefix
\* and selects the remainder; with no such candidate the value stays v.  v is
\* kept as typed, and the old value ends equal to the value.
C2_Autocomplete ==
  [][(IsOtherKeyup(op') /\ value # <<>> /\ value # oldval) =>
       LET v == value
           M == Matches(autocomplete, v)
       IN  /\ IF M = {}
              THEN value' = v
              ELSE LET name == autocomplete[CHOOSE i \in M : \A j \in M : i <= j]
                   IN  /\ value' = v \o SubSeq(name, Len(v) + 1, Len(name))
                       /\ sel' = <<Len(v), Len(value')>>
           /\ SubSeq(value', 1, Len(v)) = v
           /\ oldval' = value']_vars

\* "a" typed with candidates Aa, aba: completed from the first one, to "aa"
C2_Witness ==
  /\ IsOtherKeyup(op)
  /\ autocomplete = << <<"A", "a">>, <<"a", "b", "a">> >>
  /\ value = <<"a", "a">>
  /\ sel = <<1, 2>>
  /\ oldval = value

\* C3: after every searchProgress(item, itemCnt) the indicator is visible
\* and shows the arc of the fraction item / itemCnt of that call.
C3_ProgressShowsArc ==
  op[1] = "searchProgress" => (~hidden /\ arc = ArcPath(op[2], op[3]))

\* C4: the indicator is created hidden; it is visible exactly when
\* searchProgress was called since the last endSearch (or construction);
\* endSearch leaves it hidden and a second endSearch changes nothing; no other
\* operation changes its visibility.
C4_IndicatorVisibility ==
  /\ [](hidden <=> ~progressed)
  /\ [][/\ op'[1] = "searchProgress" => ~hidden'
        /\ op'[1] = "endSearch" => hidden'
        /\ (op'[1] = "endSearch" /\ hidden) => UNCHANGED <<hidden, arc>>
        /\ op'[1] \notin {"searchProgress", "endSearch"} => hidden' = hidden]_vars

\* the indicator hidden again by endSearch after it had been shown and drawn
C4_Witness == op[1] = "endSearch" /\ hidden /\ arc # NoArc

\* C5: updateWordCount(0) empties the file-info text as hideWordCount() does;
\* updateWordCount(words), words # 0, writes the label of words; nothing else
\* changes the text, so it depends on the last of these calls only.
C5_WordCount ==
  [][/\ op'[1] = "updateWordCount" =>
          fileInfo' = IF op'[2] = 0 THEN <<>> ELSE <<"gui.words", op'[2]>>
     /\ op'[1] = "hideWordCount" => fileInfo' = <<>>
     /\ op'[1] \notin {"updateWordCount", "hideWordCount"} => fileInfo' = fileInfo]_vars

\* a label on display, left alone by a later operation
C5_Witness ==
  /\ fileInfo = <<"gui.words", 2>>
  /\ op[1] \notin {"updateWordCount", "hideWordCount"}

\* C6: the public methods send no command to the renderer and change only
\* the part of the toolbar they are named for; toggleDistractionFree flips the
\* 'mute' class, so that two calls restore it.
C6_MethodFrames ==
  [][/\ op'[1] \in {"updateWordCount", "hideWordCount", "toggleDistractionFree",
                    "focusSearch", "setSearch", "searchProgress", "endSearch"}
          => NoCommand(calls')
     /\ op'[1] \in {"updateWordCount", "hideWordCount"}
          => UNCHANGED <<searchVars, hidden, arc, mute>>
     /\ op'[1] = "toggleDistractionFree"
          => mute' = ~mute /\ UNCHANGED <<searchVars, hidden, arc, fileInfo>>
     /\ op'[1] = "focusSearch"
          => focused' /\ UNCHANGED <<value, oldval, hidden, arc, fileInfo, mute>>
     /\ op'[1] = "setSearch"
          => UNCHANGED <<focused, autocomplete, oldval, hidden, arc, fileInfo, mute>>
     /\ op'[1] \in {"searchProgress", "endSearch"}
          => UNCHANGED <<searchVars, fileInfo, mute>>]_vars

\* focusSearch() has run the focus handler, which asked the renderer for the
\* files, with a label on display and the toolbar muted
C6_Witness ==
  /\ op[1] = "focusSearch"
  /\ Len(calls) = 1 /\ calls[1].fn = "getFilesInDirectory"
  /\ mute /\ fileInfo # NoText

\* C7: an ESC keyup and a click on the end-search element have the same
\* effect: the searchbar is left without the focus and with an empty value,
\* exitSearch is the one call made, the candidate list is empty and the old
\* value is ''.
C7_LeaveSearch ==
  [][((IsKeyup(op') /\ op'[2] = ESC) \/ op'[1] = "end-search") =>
       /\ ~focused'
       /\ value' = <<>>
       /\ sel' = <<0, 0>>
       /\ Len(calls') = 1 /\ calls'[1].fn = "exitSearch"
       /\ autocomplete' = <<>>
       /\ oldval' = <<>>
       /\ UNCHANGED <<hidden, arc, fileInfo, mute>>]_vars

\* ESC released in the searchbar
C7_Witness ==
  /\ IsKeyup(op) /\ op[2] = ESC
  /\ ~focused /\ value = <<>> /\ calls = <<ExitSearchCall>>

\* C8: a RETURN keyup calls beginSearch once, with the value of the
\* searchbar, and leaves the value, the old value and the candidates alone.
C8_ReturnBeginsSearch ==
  [][(IsKeyup(op') /\ op'[2] = RETURN) =>
       /\ Len(calls') = 1
       /\ calls'[1].fn = "beginSearch"
       /\ calls'[1].term = value
       /\ UNCHANGED <<value, oldval, autocomplete>>]_vars

\* RETURN on a value that an autocompletion produced
C8_Witness ==
  /\ IsKeyup(op) /\ op[2] = RETURN
  /\ calls[1].term = <<"a", "b", "a">>
  /\ oldval = value /\ autocomplete # <<>>

\* the value is what is left of a completion after its selected remainder
\* was deleted
CompletionDeleted ==
  /\ IsDeleteKeyup(op)
  /\ lastEdit = "deleted"
  /\ value # <<>>
  /\ Len(value) < Len(oldval)
  /\ \E i \in Matches(autocomplete, value) :
       oldval = value \o SubSeq(autocomplete[i], Len(value) + 1, Len(autocomplete[i]))

\* C9: a Backspace or Delete keyup, and any other keyup but ESC and RETURN
\* with an empty or unchanged value, changes neither the value, the old value
\* nor the candidates and calls nothing; so after a completion was deleted
\* the value stays as typed until a further character is typed.
C9_DeleteKeepsTyped ==
  [][/\ (IsDeleteKeyup(op') \/ (IsOtherKeyup(op') /\ (value = <<>> \/ value = oldval)))
          => (UNCHANGED <<value, oldval, autocomplete>> /\ calls' = <<>>)
     /\ (CompletionDeleted /\ IsKeyup(op') /\ op'[2] \notin {ESC, RETURN})
          => value' = value]_vars

\* C10: the candidate list is empty and the old value '' whenever the
\* searchbar is without the focus (at construction, after every blur); the
\* list changes only to the list getFilesInDirectory() returns to the focus
\* handler, or to the empty list; every focus loads it; and a completion is
\* made from a name of the list as loaded.
C10_CandidateLifecycle ==
  /\ [](~focused => (autocomplete = <<>> /\ oldval = <<>>))
  /\ [][/\ autocomplete' # autocomplete =>
             \/ autocomplete' = <<>>
             \/ /\ focused'
                /\ Len(calls') = 1
                /\ calls'[1].fn = "getFilesInDirectory"
                /\ calls'[1].ret = autocomplete'
        /\ (op'[1] = "focus" \/ (op'[1] = "focusSearch" /\ ~focused)) =>
             /\ Len(calls') = 1
             /\ calls'[1].fn = "getFilesInDirectory"
             /\ calls'[1].ret = autocomplete'
        /\ (IsKeyup(op') /\ value' # value /\ value' # <<>>) =>
             \E i \in 1..Len(autocomplete) :
               value' = value \o SubSeq(autocomplete[i], Len(value) + 1, Len(autocomplete[i]))]_vars

\* the searchbar blurred after a completion: candidates and old value reset
C10_Witness ==
  /\ op[1] = "blur"
  /\ value = <<"a", "b", "a">>
  /\ autocomplete = <<>> /\ oldval = <<>>

====
